---- MODULE Spec2Model ----
(***************************************************************************)
(* parameterx: a string-keyed container of type-erased values.             *)
(*                                                                         *)
(* Parameters { map: BTreeMap<String, Arc<dyn ParameterValue>> } is        *)
(* modelled as a key-sorted sequence of <<key, handle>> entries plus a     *)
(* heap from Arc handles to the stored values.  A stored value carries its *)
(* concrete type (the TypeId that Any::downcast_ref compares) and its      *)
(* content.  Text (String, &str) is a sequence of one-character strings,   *)
(* so that ordering, rendering and parsing are computed, not assumed.      *)
(***************************************************************************)
EXTENDS Integers, Sequences, FiniteSets, TLC

VARIABLES
    kind,     \* per variable: "moved" (no value), "params" or "builder"
    params,   \* per variable: the BTreeMap, a key-sorted sequence of <<key, handle>>
    heap,     \* Arc handle -> stored value; its domain is the set of live handles
    last,     \* the operation performed last, with its arguments
    cloned    \* the variable that holds a clone of the other, while both are alive; else ""

vars == <<kind, params, heap, last, cloned>>

----------------------------------------------------------------------------
(* Bound of the model: the longest sequence of pairs a caller passes. *)

MaxPairs == 2

----------------------------------------------------------------------------
(* Text and the order of String. *)

\* The UTF-8 code of every character the model uses (all ASCII).
CharCode ==
    [c \in {"0", "2", "3", "5", "-", "C", "a", "e", "g", "h", "i", "l", "m",
            "n", "r", "t", "x", "y"} |->
        CASE c = "-" -> 45  [] c = "0" -> 48  [] c = "2" -> 50  [] c = "3" -> 51
          [] c = "5" -> 53  [] c = "C" -> 67  [] c = "a" -> 97  [] c = "e" -> 101
          [] c = "g" -> 103 [] c = "h" -> 104 [] c = "i" -> 105 [] c = "l" -> 108
          [] c = "m" -> 109 [] c = "n" -> 110 [] c = "r" -> 114 [] c = "t" -> 116
          [] c = "x" -> 120 [] c = "y" -> 121]

\* Ord for String: byte-wise lexicographic, a proper prefix sorting first.
RECURSIVE StrLess(_, _)
StrLess(a, b) ==
    IF b = <<>> THEN FALSE
    ELSE IF a = <<>> THEN TRUE
    ELSE IF CharCode[Head(a)] # CharCode[Head(b)]
         THEN CharCode[Head(a)] < CharCode[Head(b)]
    ELSE StrLess(Tail(a), Tail(b))

KeyAge  == <<"a", "g", "e">>
KeyName == <<"n", "a", "m", "e">>
KeyText == <<"t", "e", "x", "t">>
KeyX    == <<"x">>
KeyY    == <<"y">>

\* The keys a caller stores under.
Keys == {KeyName, KeyText, KeyAge}

Text25      == <<"2", "5">>
TextCharlie == <<"C", "h", "a", "r", "l", "i", "e">>

----------------------------------------------------------------------------
(* Stored values: a concrete type and a content. *)

I32(n)      == [type |-> "i32",    int |-> n, text |-> <<>>]
StringOf(t) == [type |-> "String", int |-> 0, text |-> t]

\* The values a caller stores.
Values == {I32(30), StringOf(Text25)}

\* The texts a caller passes to From<String>, From<&str> and FromIterator.
Texts == {Text25}

\* The types a caller asks for in get::<T>.
Types == {"i32", "String", "&str", "bool"}

None == <<>>
Some(x) == <<x>>

Digit == <<"0", "1", "2", "3", "4", "5", "6", "7", "8", "9">>

\* Display for an unsigned integer: its decimal digits.
RECURSIVE NatToText(_)
NatToText(n) ==
    IF n < 10 THEN <<Digit[n + 1]>>
    ELSE NatToText(n \div 10) \o <<Digit[(n % 10) + 1]>>

\* Display for i32.
IntToText(n) == IF n < 0 THEN <<"-">> \o NatToText(-n) ELSE NatToText(n)

\* A rendering through Debug ({:?}), which quotes text.
ValueToStringDebug(v) ==
    IF v.type = "i32" THEN IntToText(v.int) ELSE <<"\"">> \o v.text \o <<"\"">>

\* impl<T> ParameterValue for T: to_string delegates to T's own ToString.
ValueToString(v) ==
    IF v.type = "i32" THEN IntToText(v.int) ELSE v.text

\* impl<T> ParameterValue for T: type_name.
ValueTypeName(v) == v.type

\* impl<T> ParameterValue for T: clone_arc clones the concrete value.
ValueClone(v) == v

\* A downcast that does not compare the TypeId.
DowncastRefUnchecked(v, T) == Some(v)

\* as_any().downcast_ref::<T>(): a reference iff the TypeId is T's.
DowncastRef(v, T) == IF v.type = T THEN Some(v) ELSE None

----------------------------------------------------------------------------
(* BTreeMap<String, Arc<dyn ParameterValue>> as a key-sorted sequence. *)

\* BTreeMap::get.
MapGet(m, k) ==
    IF \E i \in 1..Len(m) : m[i][1] = k
    THEN Some((CHOOSE e \in {m[i] : i \in 1..Len(m)} : e[1] = k)[2])
    ELSE None

\* BTreeMap::contains_key.
MapContainsKey(m, k) == \E i \in 1..Len(m) : m[i][1] = k

\* An insert that keeps the value already stored under an equal key.
RECURSIVE MapInsertKeepFirst(_, _, _)
MapInsertKeepFirst(m, k, h) ==
    IF m = <<>> THEN << <<k, h>> >>
    ELSE IF m[1][1] = k THEN m
    ELSE IF StrLess(k, m[1][1]) THEN << <<k, h>> >> \o m
    ELSE << m[1] >> \o MapInsertKeepFirst(Tail(m), k, h)

\* An insert into a map that keeps insertion order: a new key goes last.
MapInsertAppend(m, k, h) ==
    IF \E i \in 1..Len(m) : m[i][1] = k
    THEN [i \in 1..Len(m) |-> IF m[i][1] = k THEN <<k, h>> ELSE m[i]]
    ELSE Append(m, <<k, h>>)

\* BTreeMap::insert: replaces the value of an equal key, else places the entry
\* at its position in key order.
RECURSIVE MapInsert(_, _, _)
MapInsert(m, k, h) ==
    IF m = <<>> THEN << <<k, h>> >>
    ELSE IF m[1][1] = k THEN << <<k, h>> >> \o Tail(m)
    ELSE IF StrLess(k, m[1][1]) THEN << <<k, h>> >> \o m
    ELSE << m[1] >> \o MapInsert(Tail(m), k, h)

\* BTreeMap::extend: inserts the entries of the other map one by one.
RECURSIVE MapExtend(_, _)
MapExtend(m, other) ==
    IF other = <<>> THEN m
    ELSE MapExtend(MapInsert(m, other[1][1], other[1][2]), Tail(other))

\* BTreeMap::keys.
MapKeys(m) == [i \in 1..Len(m) |-> m[i][1]]

MapHandles(m) == {m[i][2] : i \in 1..Len(m)}

----------------------------------------------------------------------------
(* Arc handles. *)

MaxOf(S) == CHOOSE x \in S : \A y \in S : y <= x

\* Arc::new(value): a handle no live Arc has, holding the value.
ArcNew(H, v) ==
    LET h == IF DOMAIN H = {} THEN 1 ELSE MaxOf(DOMAIN H) + 1
    IN [handle |-> h, heap |-> (h :> v) @@ H]

\* A clone of the handle (Arc::clone) in place of a clone of the value.
CloneArcShared(H, h) == [handle |-> h, heap |-> H]

\* ParameterValue::clone_arc: Arc::new(self.clone()).
CloneArc(H, h) == ArcNew(H, ValueClone(H[h]))

\* The handles in the order in which the live containers first mention them.
HandleOrder(P) ==
    LET all == [i \in 1..Len(P["p"]) |-> P["p"][i][2]]
               \o [i \in 1..Len(P["q"]) |-> P["q"][i][2]]
    IN SelectSeq([i \in 1..Len(all) |->
                    IF \E j \in 1..(i - 1) : all[j] = all[i] THEN 0 ELSE all[i]],
                 LAMBDA h : h # 0)

\* The end of a statement: an Arc no container refers to any more is dropped
\* (its count reached zero), and since an address is observable only through
\* equality of addresses, the live handles are renamed 1, 2, ... in the order
\* in which the containers mention them.
Settle(P, H) ==
    LET order == HandleOrder(P)
        name == [h \in {order[i] : i \in 1..Len(order)} |->
                    CHOOSE i \in 1..Len(order) : order[i] = h]
    IN [params |-> [s \in DOMAIN P |->
                      [i \in 1..Len(P[s]) |-> <<P[s][i][1], name[P[s][i][2]]>>]],
        heap   |-> [n \in 1..Len(order) |-> H[order[n]]]]

----------------------------------------------------------------------------
(* error.rs: ParameterError, and Result. *)

KeyNotFound(k)        == [kind |-> "KeyNotFound", detail |-> k]
ConversionFailed(e)   == [kind |-> "ConversionFailed", detail |-> <<e>>]
TypeMismatch(exp, act) == [kind |-> "TypeMismatch", detail |-> <<exp, act>>]

Ok(x)  == [ok |-> <<x>>, err |-> <<>>]
Err(e) == [ok |-> <<>>, err |-> <<e>>]

----------------------------------------------------------------------------
(* The methods of Parameters, on a map m and the heap H. *)

\* Parameters::insert: self.map.insert(key.into(), Arc::new(value)).
ParamsInsert(m, H, k, v) ==
    LET a == ArcNew(H, v)
    IN [map |-> MapInsert(m, k, a.handle), heap |-> a.heap]

\* Parameters::with: self.insert(key, value); self.
ParamsWith(m, H, k, v) == ParamsInsert(m, H, k, v)

\* Parameters::get::<T>.
ParamsGet(m, H, T, k) ==
    LET r == MapGet(m, k)
    IN IF r = None THEN None ELSE DowncastRef(H[r[1]], T)

\* A get_required that reports a present key of another type as TypeMismatch.
ParamsGetRequiredMismatch(m, H, T, k) ==
    LET r == ParamsGet(m, H, T, k)
    IN IF r # None THEN Ok(r[1])
       ELSE IF MapGet(m, k) = None THEN Err(KeyNotFound(k))
       ELSE Err(TypeMismatch(T, ValueTypeName(H[MapGet(m, k)[1]])))

\* Parameters::get_required::<T>.
ParamsGetRequired(m, H, T, k) ==
    LET r == ParamsGet(m, H, T, k)
    IN IF r = None THEN Err(KeyNotFound(k)) ELSE Ok(r[1])

\* Parameters::get_string.
ParamsGetString(m, H, k) ==
    LET r == MapGet(m, k)
    IN IF r = None THEN None ELSE Some(ValueToString(H[r[1]]))

\* Parameters::contains_key.
ParamsContainsKey(m, k) == MapContainsKey(m, k)

\* A merge in which the entries of self win on a collision.
ParamsMergeLeft(m, other) == MapExtend(other, m)

\* Parameters::merge: self.map.extend(other.map).
ParamsMerge(m, other) == MapExtend(m, other)

\* Parameters::keys.
ParamsKeys(m) == MapKeys(m)

\* Parameters::iter: the (key, handle) pairs in the map's order.
ParamsIter(m) == m

\* impl Clone for Parameters: every entry's key with clone_arc of its value,
\* collected into a new map.
RECURSIVE CloneEntries(_, _, _)
CloneEntries(acc, H, rest) ==
    IF rest = <<>> THEN [map |-> acc, heap |-> H]
    ELSE LET a == CloneArc(H, rest[1][2])
         IN CloneEntries(MapInsert(acc, rest[1][1], a.handle), a.heap, Tail(rest))

ParamsClone(m, H) == CloneEntries(<<>>, H, ParamsIter(m))

\* impl FromIterator<(String, String)>: insert of every pair, in turn.
RECURSIVE ParamsFromIter(_, _, _)
ParamsFromIter(m, H, pairs) ==
    IF pairs = <<>> THEN [map |-> m, heap |-> H]
    ELSE LET r == ParamsInsert(m, H, pairs[1][1], StringOf(pairs[1][2]))
         IN ParamsFromIter(r.map, r.heap, Tail(pairs))

\* impl From<String>: Parameters::new().with("text", text).
ParamsFromString(H, t) == ParamsWith(<<>>, H, KeyText, StringOf(t))

\* impl From<&str>: Parameters::new().with("text", text.to_string()).
ParamsFromStr(H, t) == ParamsWith(<<>>, H, KeyText, StringOf(t))

\* What a caller sees of a container: its keys with their values, in order.
Content(m, H) == [i \in 1..Len(m) |-> <<m[i][1], H[m[i][2]]>>]

----------------------------------------------------------------------------
(* try_get and to_json. *)

IsDigit(c) == \E d \in 1..10 : Digit[d] = c

DigitValue(c) == (CHOOSE d \in 1..10 : Digit[d] = c) - 1

RECURSIVE TextToNat(_, _)
TextToNat(acc, t) ==
    IF t = <<>> THEN acc ELSE TextToNat(acc * 10 + DigitValue(Head(t)), Tail(t))

\* The target types T of try_get::<T> in the model.  T: TryFrom<String> holds of
\* String through the standard blanket impl (U: Into<T>, Error = Infallible), and
\* of a caller's own type that implements it: "Digits" stands for a caller's
\* struct Digits(u32) whose TryFrom<String> parses decimal digits.  The standard
\* library has no impl TryFrom<String> for i32.
TryFromStringImpls == {"String", "Digits"}

\* <T as TryFrom<String>>::try_from.
TryFromString(T, t) ==
    IF T = "String" THEN Ok(t)
    ELSE IF t # <<>> /\ \A i \in 1..Len(t) : IsDigit(t[i]) THEN Ok(TextToNat(0, t))
    ELSE Err("invalid digit found in string")

\* A call the compiler rejects has no result, neither Ok nor Err.
NoResult == [ok |-> <<>>, err |-> <<>>]

\* Parameters::try_get::<T>, where T: TryFrom<String>.
ParamsTryGet(m, H, T, k) ==
    IF T \notin TryFromStringImpls THEN NoResult
    ELSE LET t == ParamsGetString(m, H, k)
         IN IF t = None THEN Err(KeyNotFound(k))
            ELSE LET r == TryFromString(T, t[1])
                 IN IF r.err # <<>> THEN Err(ConversionFailed(r.err[1])) ELSE r

\* A to_json that succeeds with the value's text.
ValueToJsonText(v) == Ok(ValueToString(v))

\* ParameterValue::to_json, the default body, which the blanket impl keeps.
ValueToJson(v) ==
    Err(ConversionFailed("JSON serialization not implemented for this type"))

\* Parameters::to_json: the loop over self.iter(); `?` returns the first error.
\* calls counts the values whose to_json ran.
RECURSIVE ToJsonLoop(_, _, _, _)
ToJsonLoop(obj, rest, H, calls) ==
    IF rest = <<>> THEN [result |-> Ok(obj), calls |-> calls]
    ELSE LET r == ValueToJson(H[rest[1][2]])
         IN IF r.err # <<>> THEN [result |-> Err(r.err[1]), calls |-> calls + 1]
            ELSE ToJsonLoop(MapInsert(obj, rest[1][1], r.ok[1]), Tail(rest), H, calls + 1)

ParamsToJson(m, H) == ToJsonLoop(<<>>, ParamsIter(m), H, 0)

\* A call container.method::<T>(k) of a query, resolved against the methods
\* that impl Parameters defines; a name it does not define resolves to nothing.
ParamsQuery(method, m, H, T, k) ==
    CASE method = "get"          -> Ok(ParamsGet(m, H, T, k))
      [] method = "get_required" -> ParamsGetRequired(m, H, T, k)
      [] method = "get_string"   -> Ok(ParamsGetString(m, H, k))
      [] method = "contains_key" -> Ok(ParamsContainsKey(m, k))
      [] method = "try_get"      -> ParamsTryGet(m, H, T, k)
      [] OTHER                   -> NoResult

----------------------------------------------------------------------------
(* The state machine: two variables of the caller, p and q.  Each holds a   *)
(* Parameters, or nothing (never built, or moved out by a consuming call);  *)
(* q may also hold a ParametersBuilder.                                     *)

Slots == {"p", "q"}
BuilderSlots == {"q"}

\* The sequences of at most MaxPairs elements of S.
PairSeqs(S) == UNION {[1..n -> S] : n \in 0..MaxPairs}

Op(op, slot, src, key, val, prev, arg) ==
    [op |-> op, slot |-> slot, src |-> src, key |-> key, val |-> val,
     prev |-> prev, arg |-> arg]

\* The type stored under k before the operation, if any.
PrevType(m, H, k) ==
    LET r == MapGet(m, k) IN IF r = None THEN None ELSE Some(ValueTypeName(H[r[1]]))

Commit(K, P, H, L, C) ==
    LET st == Settle(P, H)
    IN /\ kind' = K
       /\ params' = st.params
       /\ heap' = st.heap
       /\ last' = L
       /\ cloned' = C

Init ==
    /\ kind = [s \in Slots |-> IF s = "p" THEN "params" ELSE "moved"]
    /\ params = [s \in Slots |-> <<>>]
    /\ heap = <<>>
    /\ last = Op("new", "p", "", <<>>, None, None, <<>>)
    /\ cloned = ""

\* let s = Parameters::new();  also parameters!().
New(s) ==
    /\ kind[s] = "moved"
    /\ Commit([kind EXCEPT ![s] = "params"], [params EXCEPT ![s] = <<>>], heap,
              Op("new", s, "", <<>>, None, None, <<>>), cloned)

\* s.insert(k, v).
Insert(s, k, v) ==
    /\ kind[s] = "params"
    /\ LET r == ParamsInsert(params[s], heap, k, v)
       IN Commit(kind, [params EXCEPT ![s] = r.map], r.heap,
                 Op("insert", s, "", k, Some(v), PrevType(params[s], heap, k), <<>>),
                 cloned)

\* s = s.with(k, v).
With(s, k, v) ==
    /\ kind[s] = "params"
    /\ LET r == ParamsWith(params[s], heap, k, v)
       IN Commit(kind, [params EXCEPT ![s] = r.map], r.heap,
                 Op("with", s, "", k, Some(v), PrevType(params[s], heap, k), <<>>),
                 cloned)

\* s.merge(t): t is moved into the call.
Merge(s, t) ==
    /\ s # t
    /\ kind[s] = "params"
    /\ kind[t] = "params"
    /\ Commit([kind EXCEPT ![t] = "moved"],
              [params EXCEPT ![s] = ParamsMerge(params[s], params[t]), ![t] = <<>>],
              heap,
              Op("merge", s, t, <<>>, None, None,
                 <<Content(params[s], heap), Content(params[t], heap)>>),
              "")

\* s.merge(Parameters::from(text)): the other container is a temporary.
MergeFrom(s, t) ==
    /\ kind[s] = "params"
    /\ LET o == ParamsFromString(heap, t)
       IN Commit(kind, [params EXCEPT ![s] = ParamsMerge(params[s], o.map)], o.heap,
                 Op("merge", s, "", <<>>, None, None,
                    <<Content(params[s], heap), Content(o.map, o.heap)>>),
                 cloned)

\* let t = s.clone().
Clone(s, t) ==
    /\ s # t
    /\ kind[s] = "params"
    /\ kind[t] = "moved"
    /\ LET r == ParamsClone(params[s], heap)
       IN Commit([kind EXCEPT ![t] = "params"], [params EXCEPT ![t] = r.map], r.heap,
                 Op("clone", t, s, <<>>, None, None, <<>>), t)

\* let s = Parameters::from(text) with text: String;  also parameters!(text).
FromString(s, t) ==
    /\ kind[s] = "moved"
    /\ LET r == ParamsFromString(heap, t)
       IN Commit([kind EXCEPT ![s] = "params"], [params EXCEPT ![s] = r.map], r.heap,
                 Op("from_string", s, "", KeyText, Some(StringOf(t)), None, <<>>), cloned)

\* let s = Parameters::from(text) with text: &str.
FromStr(s, t) ==
    /\ kind[s] = "moved"
    /\ LET r == ParamsFromStr(heap, t)
       IN Commit([kind EXCEPT ![s] = "params"], [params EXCEPT ![s] = r.map], r.heap,
                 Op("from_str", s, "", KeyText, Some(StringOf(t)), None, <<>>), cloned)

\* let s: Parameters = pairs.into_iter().collect().
FromIter(s, pairs) ==
    /\ kind[s] = "moved"
    /\ LET r == ParamsFromIter(<<>>, heap, pairs)
       IN Commit([kind EXCEPT ![s] = "params"], [params EXCEPT ![s] = r.map], r.heap,
                 Op("from_iter", s, "", <<>>, None, None, pairs), cloned)

\* parameters!{ k1 => v1, ... }: Parameters::new(), then params = params.with(k, v)
\* for every pair in turn.
RECURSIVE MacroWith(_, _, _)
MacroWith(m, H, pairs) ==
    IF pairs = <<>> THEN [map |-> m, heap |-> H]
    ELSE LET r == ParamsWith(m, H, pairs[1][1], pairs[1][2])
         IN MacroWith(r.map, r.heap, Tail(pairs))

MacroPairs(s, pairs) ==
    /\ kind[s] = "moved"
    /\ pairs # <<>>
    /\ LET r == MacroWith(<<>>, heap, pairs)
       IN Commit([kind EXCEPT ![s] = "params"], [params EXCEPT ![s] = r.map], r.heap,
                 Op("macro", s, "", <<>>, None, None, pairs), cloned)

\* let s = ParametersBuilder::new().
BuilderNew(s) ==
    /\ s \in BuilderSlots
    /\ kind[s] = "moved"
    /\ Commit([kind EXCEPT ![s] = "builder"], [params EXCEPT ![s] = <<>>], heap,
              Op("builder_new", s, "", <<>>, None, None, <<>>), cloned)

\* s = s.add(k, v): self.params.insert(key, value); self.
BuilderAdd(s, k, v) ==
    /\ kind[s] = "builder"
    /\ LET r == ParamsInsert(params[s], heap, k, v)
       IN Commit(kind, [params EXCEPT ![s] = r.map], r.heap,
                 Op("add", s, "", k, Some(v), PrevType(params[s], heap, k), <<>>),
                 cloned)

\* s = s.merge(t): self.params.merge(other); self.
BuilderMerge(s, t) ==
    /\ s # t
    /\ kind[s] = "builder"
    /\ kind[t] = "params"
    /\ Commit([kind EXCEPT ![t] = "moved"],
              [params EXCEPT ![s] = ParamsMerge(params[s], params[t]), ![t] = <<>>],
              heap,
              Op("builder_merge", s, t, <<>>, None, None,
                 <<Content(params[s], heap), Content(params[t], heap)>>),
              "")

\* let s = s.build(): the builder's Parameters.
Build(s) ==
    /\ kind[s] = "builder"
    /\ Commit([kind EXCEPT ![s] = "params"], params, heap,
              Op("build", s, "", <<>>, None, None, <<>>), cloned)

Next ==
    \/ \E s \in Slots : New(s)
    \/ \E s \in Slots, k \in Keys, v \in Values : Insert(s, k, v)
    \/ \E s \in Slots, k \in Keys, v \in Values : With(s, k, v)
    \/ \E s \in Slots, t \in Slots : Merge(s, t)
    \/ \E s \in Slots, t \in Texts : MergeFrom(s, t)
    \/ \E s \in Slots, t \in Slots : Clone(s, t)
    \/ \E s \in Slots, t \in Texts : FromString(s, t)
    \/ \E s \in Slots, t \in Texts : FromStr(s, t)
    \/ \E s \in Slots, pairs \in PairSeqs(Keys \X Texts) : FromIter(s, pairs)
    \/ \E s \in Slots, pairs \in PairSeqs(Keys \X Values) : MacroPairs(s, pairs)
    \/ \E s \in Slots : BuilderNew(s)
    \/ \E s \in Slots, k \in Keys, v \in Values : BuilderAdd(s, k, v)
    \/ \E s \in Slots, t \in Slots : BuilderMerge(s, t)
    \/ \E s \in Slots : Build(s)

Spec == Init /\ [][Next]_vars

----------------------------------------------------------------------------
(* What the properties below speak about. *)

\* The keys a caller asks for: those the operations use and two never stored.
QueryKeys == Keys \cup {KeyX, KeyY}

\* The variables that hold a Parameters.
Containers == {s \in Slots : kind[s] = "params"}

InsertOps == {"insert", "with", "add"}
MergeOps == {"merge", "builder_merge"}

\* The target types asked of try_get::<T>.
TryGetTypes == TryFromStringImpls \cup {"i32"}

KeySet(c) == {c[i][1] : i \in 1..Len(c)}

\* The value a content c (a sequence of <<key, value>>) holds under k.
Lookup(c, k) ==
    IF \E i \in 1..Len(c) : c[i][1] = k
    THEN Some((CHOOSE e \in {c[i] : i \in 1..Len(c)} : e[1] = k)[2])
    ELSE None

ErrKind(r) == IF r.err = <<>> THEN "" ELSE r.err[1].kind

----------------------------------------------------------------------------
\* C1: right after insert(k, v) (or with, or the builder's add), get::<T>(k) for
\* the type T of v returns v, whether or not k was present and whatever the type
\* of the value it replaces; an insert on a present key leaves the number of keys
\* unchanged (and an insert on an absent key adds one).
C1_InsertThenGet ==
    [][last'.op \in InsertOps =>
        LET s == last'.slot
            k == last'.key
            v == last'.val[1]
        IN /\ ParamsGet(params'[s], heap', v.type, k) = Some(v)
           /\ Len(params'[s]) = IF MapContainsKey(params[s], k)
                                 THEN Len(params[s])
                                 ELSE Len(params[s]) + 1]_vars

\* An insert has replaced a value of another type, and get returns the new value.
C1_Witness ==
    /\ last.op \in InsertOps
    /\ last.prev # None
    /\ last.prev[1] # last.val[1].type
    /\ ParamsGet(params[last.slot], heap, last.val[1].type, last.key) = Some(last.val[1])

\* C2: get::<U>(k) returns a value iff k is present and the value stored under k
\* has exactly the type U, and then it is that value; for a key just given a value
\* of another type, and for an absent key, it returns None.
C2_GetIffExactType ==
    \A s \in Containers, k \in QueryKeys, U \in Types :
        LET c == Content(params[s], heap)
            g == ParamsGet(params[s], heap, U, k)
        IN /\ (g # None) <=> (\E i \in 1..Len(c) : c[i][1] = k /\ c[i][2].type = U)
           /\ g # None => Lookup(c, k) = g
           /\ (last.op \in InsertOps /\ last.slot = s /\ last.key = k
                 /\ last.val[1].type # U) => g = None

\* An i32 was stored under a key: get::<String> of that key is None, get::<i32> is
\* not, and get of a key never stored is None.
C2_Witness ==
    \E s \in Containers :
        /\ last.op = "insert" /\ last.slot = s /\ last.val[1].type = "i32"
        /\ ParamsGet(params[s], heap, "String", last.key) = None
        /\ ParamsGet(params[s], heap, "i32", last.key) # None
        /\ ParamsGet(params[s], heap, "i32", KeyY) = None

\* C3: get_required::<T>(k) is Ok(v) exactly when get::<T>(k) is Some(v), and is
\* KeyNotFound(k) otherwise, for an absent key and for a key of another type
\* alike; get_required, try_get and to_json never return TypeMismatch.
C3_GetRequired ==
    \A s \in Containers, k \in QueryKeys :
        /\ \A T \in Types :
              LET g == ParamsGet(params[s], heap, T, k)
                  r == ParamsGetRequired(params[s], heap, T, k)
              IN /\ g # None => r = Ok(g[1])
                 /\ g = None => r = Err(KeyNotFound(k))
                 /\ ErrKind(r) # "TypeMismatch"
        /\ \A T \in TryGetTypes :
              ErrKind(ParamsTryGet(params[s], heap, T, k)) # "TypeMismatch"
        /\ ErrKind(ParamsToJson(params[s], heap).result) # "TypeMismatch"

\* A container holds an i32 under a key: get_required::<String> of it is
\* KeyNotFound, get_required::<i32> is Ok, and an absent key is KeyNotFound.
C3_Witness ==
    \E s \in Containers, k \in Keys :
        /\ Lookup(Content(params[s], heap), k) = Some(I32(30))
        /\ ParamsGetRequired(params[s], heap, "String", k) = Err(KeyNotFound(k))
        /\ ParamsGetRequired(params[s], heap, "i32", k) = Ok(I32(30))
        /\ \E j \in Keys :
              /\ ~ParamsContainsKey(params[s], j)
              /\ ParamsGetRequired(params[s], heap, "i32", j) = Err(KeyNotFound(j))

\* C4: after A.merge(B) the keys of A are the keys A had together with the keys
\* of B; every key of B holds B's value, and every key of A alone keeps its value.
C4_MergeRightBiased ==
    last.op \in MergeOps =>
        LET A == last.arg[1]
            B == last.arg[2]
            R == Content(params[last.slot], heap)
        IN /\ KeySet(R) = KeySet(A) \cup KeySet(B)
           /\ Len(R) = Cardinality(KeySet(R))
           /\ \A k \in KeySet(B) : Lookup(R, k) = Lookup(B, k)
           /\ \A k \in KeySet(A) \ KeySet(B) : Lookup(R, k) = Lookup(A, k)

\* A merge in which one key was in A alone, one in both with different values,
\* and one in B alone.
C4_Witness ==
    /\ last.op = "merge"
    /\ LET A == last.arg[1]
           B == last.arg[2]
       IN /\ KeySet(A) \ KeySet(B) # {}
          /\ KeySet(B) \ KeySet(A) # {}
          /\ \E k \in KeySet(A) \cap KeySet(B) :
                /\ Lookup(A, k) # Lookup(B, k)
                /\ Lookup(Content(params[last.slot], heap), k) = Lookup(B, k)

\* C5: a clone holds, when it is made, the keys and values of the original, each
\* in a handle of its own; no handle is ever shared between the two containers;
\* and while a container and its clone are both alive, an insert, with or merge
\* on either leaves the keys and values of the other unchanged.
C5_CloneIndependent ==
    /\ [](MapHandles(params["p"]) \cap MapHandles(params["q"]) = {})
    /\ [][last'.op = "clone" =>
            /\ Content(params'[last'.slot], heap') = Content(params[last'.src], heap)
            /\ Content(params'[last'.src], heap') = Content(params[last'.src], heap)]_vars
    /\ [][(cloned # "" /\ cloned' # "" /\ last'.op \in InsertOps \cup MergeOps) =>
            \A s \in Slots \ {last'.slot} :
                Content(params'[s], heap') = Content(params[s], heap)]_vars

\* A clone of a container with two keys has since been given a key the original
\* lacks, and the original still has exactly its two keys.
C5_Witness ==
    /\ cloned = "q"
    /\ last.op \in InsertOps \cup MergeOps
    /\ last.slot = "q"
    /\ Len(params["p"]) = 2
    /\ Len(params["q"]) = 3
    /\ \A k \in KeySet(Content(params["p"], heap)) :
            Lookup(Content(params["q"], heap), k) = Lookup(Content(params["p"], heap), k)

\* The original of a clone has since been given a key the clone lacks.
C5_WitnessOriginal ==
    /\ cloned = "q"
    /\ last.op \in InsertOps \cup MergeOps
    /\ last.slot = "p"
    /\ Len(params["q"]) = 2
    /\ Len(params["p"]) = 3

\* C6: after the text "25" is stored under "age", try_get::<i32>("age") returns
\* 25; after a text that is no number is stored, it returns ConversionFailed; for
\* an absent key it returns KeyNotFound.
C6_TryGet ==
    \A s \in Containers, k \in QueryKeys :
        LET t == ParamsGetString(params[s], heap, k)
        IN /\ \A T \in TryFromStringImpls :
                 LET r == ParamsTryGet(params[s], heap, T, k)
                 IN /\ t = None => r = Err(KeyNotFound(k))
                    /\ (t # None /\ TryFromString(T, t[1]).err = <<>>)
                          => r = TryFromString(T, t[1])
                    /\ (t # None /\ TryFromString(T, t[1]).err # <<>>)
                          => ErrKind(r) = "ConversionFailed"
           /\ (k = KeyAge /\ t = Some(Text25))
                 => ParamsTryGet(params[s], heap, "i32", k) = Ok(25)
           /\ (t = Some(TextCharlie))
                 => ErrKind(ParamsTryGet(params[s], heap, "i32", k)) = "ConversionFailed"

\* C7: to_json() is Ok, of the empty object, for an empty container, and for a
\* container with an entry it is the ConversionFailed of the first value in key
\* order, whose to_json is the only one that ran.
C7_ToJson ==
    \A s \in Containers :
        LET r == ParamsToJson(params[s], heap)
        IN IF params[s] = <<>>
           THEN r.result = Ok(<<>>) /\ r.calls = 0
           ELSE /\ r.result.ok = <<>>
                /\ ErrKind(r.result) = "ConversionFailed"
                /\ r.result =
                     Err(ConversionFailed("JSON serialization not implemented for this type"))
                /\ r.calls = 1

\* A container with three entries, of two types, whose to_json is ConversionFailed.
C7_Witness ==
    \E s \in Containers :
        /\ Len(params[s]) = 3
        /\ \E i, j \in 1..3 : heap[params[s][i][2]].type # heap[params[s][j][2]].type
        /\ ErrKind(ParamsToJson(params[s], heap).result) = "ConversionFailed"

\* C8: get_string(k) is None exactly when contains_key(k) is false; for a present
\* key it is the text of the value stored: the decimal digits of an i32 (the
\* integer 30 gives "30"), the text itself of a String; and a container built
\* from (String, String) pairs gives, for every key, the text of its last pair.
C8_GetString ==
    \A s \in Containers, k \in QueryKeys :
        LET t == ParamsGetString(params[s], heap, k)
            v == Lookup(Content(params[s], heap), k)
        IN /\ (t = None) <=> ~ParamsContainsKey(params[s], k)
           /\ (t = None) <=> (v = None)
           /\ v = Some(I32(30)) => t = Some(<<"3", "0">>)
           /\ (v # None /\ v[1].type # "i32") => t = Some(v[1].text)
           /\ (last.op = "from_iter" /\ last.slot = s) =>
                 /\ \A i \in 1..Len(last.arg) :
                       (\A j \in (i + 1)..Len(last.arg) : last.arg[j][1] # last.arg[i][1])
                           => ParamsGetString(params[s], heap, last.arg[i][1])
                                = Some(last.arg[i][2])
                 /\ ParamsContainsKey(params[s], k)
                       <=> \E i \in 1..Len(last.arg) : last.arg[i][1] = k

\* The integer 30 was stored under "age", over a text, and get_string("age") is "30".
C8_Witness ==
    \E s \in Containers :
        /\ last.op = "insert" /\ last.slot = s /\ last.key = KeyAge
        /\ last.val = Some(I32(30))
        /\ last.prev = Some("String")
        /\ ParamsGetString(params[s], heap, KeyAge) = Some(<<"3", "0">>)

\* A container was built from the pairs ("name", t), ("age", "25").
C8_WitnessPairs ==
    \E s \in Containers :
        /\ last.op = "from_iter" /\ last.slot = s
        /\ Len(last.arg) = 2
        /\ last.arg[1][1] = KeyName
        /\ last.arg[2] = <<KeyAge, Text25>>
        /\ ParamsGetString(params[s], heap, KeyName) = Some(last.arg[1][2])
        /\ ParamsGetString(params[s], heap, KeyAge) = Some(Text25)

\* C9: Parameters offers the query contains_type::<T>(k), which is true iff k is
\* present and the value stored under k has exactly the type T.
C9_ContainsType ==
    \A s \in Containers, k \in QueryKeys, T \in Types :
        LET c == Content(params[s], heap)
        IN ParamsQuery("contains_type", params[s], heap, T, k)
             = Ok(\E i \in 1..Len(c) : c[i][1] = k /\ c[i][2].type = T)

\* The keys of the model in ascending order, written out.
AscendingKeys == <<KeyAge, KeyName, KeyText, KeyX, KeyY>>

KeyRank(k) == CHOOSE i \in 1..Len(AscendingKeys) : AscendingKeys[i] = k

\* C10: in every state of every container, keys() and iter() yield every stored
\* key once, in ascending order of the keys, however the keys came in.
C10_KeysAscending ==
    \A s \in Slots :
        LET ks == ParamsKeys(params[s])
            it == ParamsIter(params[s])
        IN /\ \A i \in 1..(Len(ks) - 1) :
                 /\ StrLess(ks[i], ks[i + 1])
                 /\ KeyRank(ks[i]) < KeyRank(ks[i + 1])
           /\ Len(it) = Len(ks)
           /\ \A i \in 1..Len(it) : it[i][1] = ks[i]
           /\ \A k \in QueryKeys :
                 ParamsContainsKey(params[s], k) <=> \E i \in 1..Len(ks) : ks[i] = k

\* The smallest key was inserted last into a container that held two greater
\* keys, and comes first in keys().
C10_Witness ==
    \E s \in Containers :
        /\ last.op \in InsertOps /\ last.slot = s
        /\ last.prev = None
        /\ Len(params[s]) = 3
        /\ ParamsKeys(params[s])[1] = last.key

====
